---- MODULE Spec2Model ----
(***************************************************************************)
(* A model of src/app.py: the three Flask handlers login, fetch_all and    *)
(* quote over the two process globals api and contract_cache.              *)
(*                                                                         *)
(* In Spec, BulkSpec and ValidationSpec each handler is one action         *)
(* (requests are served one after the other); in ConcSpec and StepSpec a   *)
(* handler runs statement by statement on a worker thread.                 *)
(* The brokerage SDK, os.path.exists and psutil are collaborators: what    *)
(* they return, and whether they raise, is chosen with \E.  The variable   *)
(* calls records the collaborator calls of the last request, in the order  *)
(* the handler made them; resp is the handler's return value.              *)
(*                                                                         *)
(* Strings built with f-strings are sequences of tokens: the cache key     *)
(* f"stock_{code}" is the prefix "stock_" followed by the code, key +      *)
(* "_market" appends the token "_market", and f"{market}_Warrant" is       *)
(* <<market, "_Warrant">>.                                                 *)
(***************************************************************************)
EXTENDS Integers, Sequences, FiniteSets, TLC

VARIABLES
    api,             \* global api: None or the Shioaji instance
    contract_cache,  \* global contract_cache: a dict, as insertion-ordered <<key, value>> pairs
    resp,            \* the return value of the last request
    calls,           \* the collaborator calls of the last request, in order
    req,             \* the last request: its endpoint and input
    populations,     \* number of requests that read a contract directory, counted up to MaxCount
    threads          \* per worker thread, where its request stands and its locals

vars == <<api, contract_cache, resp, calls, req, populations, threads>>

(***************************************************************************)
(* Bounds of the model.                                                    *)
(***************************************************************************)
MaxCount == 2      \* populations counts this far
BigTSE == 250      \* size of the TSE directory of the large universe
BigOTC == 200      \* size of the OTC directory of the large universe

None == "None"

\* The worker threads of the server.
Threads == {1, 2}

\* A worker between requests (before its first one), and its locals.
Idle ==
    [pc |-> "idle", endpoint |-> "", sim |-> FALSE, status |-> 0,
     step |-> 0,
     held |-> [TSE |-> <<>>, OTC |-> <<>>, hasOES |-> FALSE, OES |-> <<>>],
     list |-> [items |-> <<>>, prefix |-> "", market |-> ""], k |-> 0, w |-> 0,
     sawEmpty |-> FALSE, populated |-> FALSE, src |-> {}, raced |-> FALSE,
     contracts |-> <<>>, markets |-> <<>>, listed |-> 0,
     i |-> 0, chunks |-> <<>>, quotes |-> 0]

Min(a, b) == IF a < b THEN a ELSE b

(***************************************************************************)
(* Contracts and contract directories (api.Contracts).  A contract is an   *)
(* opaque SDK object; the handlers read only its code and category, and    *)
(* probe both with hasattr.  u, dir and idx identify the object.           *)
(***************************************************************************)
NoCategory == "no_category"

Contract(u, dir, idx, hasCode, code, category) ==
    [u |-> u, dir |-> dir, idx |-> idx, hasCode |-> hasCode, code |-> code,
     category |-> category]

\* Universe 0: every directory empty (contracts not downloaded).
\* Universe 1: a code listed in two venues, warrants, a contract without a
\*             code, no OES venue, a future with the code of a stock.
\* Universe 2: an OES venue, other codes.
\* Universe 3: more than two batches of instruments.
Universes == 0..3
SmallUniverses == 0..2
BigUniverses == {3}

Directories(u) ==
    CASE u = 0 ->
           [TSE |-> <<>>, OTC |-> <<>>, hasOES |-> FALSE, OES |-> <<>>,
            Futures |-> <<>>, Options |-> <<>>]
      [] u = 1 ->
           [TSE |-> << Contract(1, "TSE", 1, TRUE, 1, "Stock"),
                       Contract(1, "TSE", 2, TRUE, 2, "Warrant"),
                       Contract(1, "TSE", 3, FALSE, 0, NoCategory) >>,
            OTC |-> << Contract(1, "OTC", 1, TRUE, 2, "Stock"),
                       Contract(1, "OTC", 2, TRUE, 3, "Warrant"),
                       Contract(1, "OTC", 3, TRUE, 6, "Stock") >>,
            hasOES |-> FALSE, OES |-> <<>>,
            Futures |-> << Contract(1, "Futures", 1, TRUE, 1, NoCategory) >>,
            Options |-> << Contract(1, "Options", 1, TRUE, 3, NoCategory) >>]
      [] u = 2 ->
           [TSE |-> << Contract(2, "TSE", 1, TRUE, 5, "Warrant") >>,
            OTC |-> <<>>,
            hasOES |-> TRUE,
            OES |-> << Contract(2, "OES", 1, TRUE, 6, NoCategory) >>,
            Futures |-> <<>>,
            Options |-> << Contract(2, "Options", 1, TRUE, 7, "Stock") >>]
      [] u = 3 ->
           [TSE |-> [i \in 1..BigTSE |-> Contract(3, "TSE", i, TRUE, 1000 + i, "Stock")],
            OTC |-> [i \in 1..BigOTC |-> Contract(3, "OTC", i, TRUE, 2000 + i, "Stock")],
            hasOES |-> FALSE, OES |-> <<>>,
            Futures |-> <<>>, Options |-> <<>>]

\* The Shioaji instance: simulation flag, how far its login flow got, and the
\* directories fetch_contracts downloads for it.
Session(sim, stage, u) == [sim |-> sim, stage |-> stage, u |-> u]

\* api = None (line 29)
NoApi == Session(FALSE, "None", 0)

\* api.Contracts of a session: filled by fetch_contracts.
Contracts(s) == IF s.stage = "ready" THEN Directories(s.u) ELSE Directories(0)

(***************************************************************************)
(* The dict contract_cache.                                                *)
(***************************************************************************)
EmptyDict == <<>>

DictHas(d, k) == \E i \in 1..Len(d) : d[i][1] = k

DictGet(d, k) == d[CHOOSE i \in 1..Len(d) : d[i][1] = k][2]

\* d[k] = v: an existing key keeps its position.
DictSet(d, k, v) ==
    IF DictHas(d, k)
    THEN [i \in 1..Len(d) |-> IF d[i][1] = k THEN <<k, v>> ELSE d[i]]
    ELSE Append(d, <<k, v>>)

\* f"stock_{contract.code}": the prefix, the code, and what is appended after
\* the code (a code is one token and holds no "_market").
CacheKey(prefix, code) == [prefix |-> prefix, code |-> code, suffix |-> <<>>]
\* cache_key + "_market"
MarketKey(key) == [key EXCEPT !.suffix = Append(@, "_market")]
\* k.endswith("_market")
EndsWithMarket(key) == Len(key.suffix) > 0 /\ key.suffix[Len(key.suffix)] = "_market"
\* f"{market}_Warrant"
WarrantMarket(market) == Append(market, "_Warrant")

(***************************************************************************)
(* Collaborator calls, as the handlers log them in calls.                  *)
(***************************************************************************)
Call(op, arg, ok) == [op |-> op, arg |-> arg, ok |-> ok]

\* The directory reads of the population step, in the order the code makes
\* them: the three stock venues are read when the list literal of the for
\* statement is built, each list(container) when its iteration starts.
DirectoryReads ==
    <<"Stocks.TSE", "Stocks.OTC", "Stocks.OES", "list(TSE)", "list(OTC)",
      "list(OES)", "Futures", "Options">>

IsDirectoryRead(op) == \E i \in 1..Len(DirectoryReads) : DirectoryReads[i] = op

ReadsDirectory(log) == \E i \in 1..Len(log) : IsDirectoryRead(log[i].op)

(***************************************************************************)
(* fetch_all: populating the cache (lines 117-150).                        *)
(***************************************************************************)
StoreContract(cache, key, contract, market) ==
    DictSet(DictSet(cache, key, contract), MarketKey(key), market)

\* Mutant of StoreStock: the warrant alias gets the venue's plain label.
StoreStockPlainLabel(cache, contract, market) ==
    LET stored == IF contract.hasCode
                  THEN DictSet(DictSet(cache, CacheKey("stock_", contract.code), contract),
                               MarketKey(CacheKey("stock_", contract.code)), <<market>>)
                  ELSE cache
    IN  IF contract.hasCode /\ contract.category = "Warrant"
        THEN DictSet(DictSet(stored, CacheKey("warrant_", contract.code), contract),
                     MarketKey(CacheKey("warrant_", contract.code)), <<market>>)
        ELSE stored

\* The body of the loop over a stock venue, for one contract (lines 129-137).
StoreStock(cache, contract, market) ==
    LET stored == IF contract.hasCode
                  THEN StoreContract(cache, CacheKey("stock_", contract.code),
                                     contract, <<market>>)
                  ELSE cache
    IN  IF contract.hasCode /\ contract.category = "Warrant"
        THEN StoreContract(stored, CacheKey("warrant_", contract.code),
                           contract, WarrantMarket(<<market>>))
        ELSE stored

\* The body of the loop over Futures or Options, for one contract
\* (lines 140-143, 146-149).
StoreOther(cache, contract, prefix, market) ==
    IF contract.hasCode
    THEN StoreContract(cache, CacheKey(prefix, contract.code), contract, <<market>>)
    ELSE cache

\* rest, with first evaluated before it.  (TLC evaluates the arguments of an
\* operator when they are used; a loop over a long list is evaluated as the
\* loop over its first half, then the loop over its second half.)
Then(first, rest) == IF Len(first) >= 0 THEN rest ELSE first

\* for contract in list(container), over container[lo..hi], for a stock
\* venue (line 128)
RECURSIVE PopulateStocks(_, _, _, _, _)
PopulateStocks(cache, container, market, lo, hi) ==
    IF lo > hi THEN cache
    ELSE IF lo = hi THEN StoreStock(cache, container[lo], market)
    ELSE LET mid == (lo + hi) \div 2
             half == PopulateStocks(cache, container, market, lo, mid)
         IN  Then(half, PopulateStocks(half, container, market, mid + 1, hi))

\* for contract in list(api.Contracts.Futures) / Options, over
\* container[lo..hi] (lines 139, 145)
RECURSIVE PopulateOthers(_, _, _, _, _, _)
PopulateOthers(cache, container, prefix, market, lo, hi) ==
    IF lo > hi THEN cache
    ELSE IF lo = hi THEN StoreOther(cache, container[lo], prefix, market)
    ELSE LET mid == (lo + hi) \div 2
             half == PopulateOthers(cache, container, prefix, market, lo, mid)
         IN  Then(half, PopulateOthers(half, container, prefix, market, mid + 1, hi))

\* The cache after the directory read `step` has returned.
AfterRead(cache, step, dirs) ==
    CASE step = "list(TSE)" -> PopulateStocks(cache, dirs.TSE, "TSE", 1, Len(dirs.TSE))
      [] step = "list(OTC)" -> PopulateStocks(cache, dirs.OTC, "OTC", 1, Len(dirs.OTC))
      [] step = "list(OES)" -> PopulateStocks(cache, dirs.OES, "OES", 1, Len(dirs.OES))
      [] step = "Futures"   -> PopulateOthers(cache, dirs.Futures, "futures_", "Futures",
                                              1, Len(dirs.Futures))
      [] step = "Options"   -> PopulateOthers(cache, dirs.Options, "options_", "Options",
                                              1, Len(dirs.Options))
      [] OTHER              -> cache

\* The reads the population step makes on these directories: a venue that
\* getattr finds absent is skipped (line 125).
PopulationSteps(dirs) ==
    SelectSeq(DirectoryReads, LAMBDA step : step # "list(OES)" \/ dirs.hasOES)

\* The population step from read number i on; the read named abort raises.
\* p = [cache, calls, raised].
RECURSIVE Populate(_, _, _, _)
Populate(p, dirs, abort, i) ==
    LET steps == PopulationSteps(dirs) IN
    IF i > Len(steps) THEN p
    ELSE IF steps[i] = abort
         THEN [cache |-> p.cache,
               calls |-> Append(p.calls, Call(steps[i], <<>>, FALSE)),
               raised |-> TRUE]
         ELSE Populate([cache |-> AfterRead(p.cache, steps[i], dirs),
                        calls |-> Append(p.calls, Call(steps[i], <<>>, TRUE)),
                        raised |-> FALSE],
                       dirs, abort, i + 1)

(***************************************************************************)
(* fetch_all: the instrument list and the batch loop (lines 152-178).      *)
(***************************************************************************)
batch_size == 200

Instruments(cache) == SelectSeq(cache, LAMBDA e : ~EndsWithMarket(e[1]))

\* contracts = [v for k, v in contract_cache.items() if not k.endswith("_market")]
ContractsOf(cache) ==
    LET items == Instruments(cache) IN [i \in 1..Len(items) |-> items[i][2]]

\* markets = [contract_cache[k + "_market"] for k, v in ... ]
MarketsOf(cache) ==
    LET items == Instruments(cache)
    IN  [i \in 1..Len(items) |-> DictGet(cache, MarketKey(items[i][1]))]

\* contract_cache[k + "_market"] raises KeyError
MarketsRaises(cache) ==
    LET items == Instruments(cache)
    IN  \E i \in 1..Len(items) : ~DictHas(cache, MarketKey(items[i][1]))

\* range(0, len(contracts), batch_size) has this many elements
NumBatches(n) == (n + batch_size - 1) \div batch_size

\* api.snapshots(batch), when it returns: one quote per requested contract,
\* in request order.  asked is the contract the quote was requested for and
\* pos its index in the instrument list (the handler reads neither).
Snapshots(batch, offset) ==
    [j \in 1..Len(batch) |->
        [code |-> batch[j].code, hasClose |-> TRUE, close |-> batch[j].idx,
         hasTs |-> TRUE, ts |-> batch[j].idx,
         asked |-> batch[j], pos |-> offset + j]]

\* Mutant of BatchLoop: a batch that raises ends the loop (break for continue).
RECURSIVE BatchLoopBreak(_, _, _, _)
BatchLoopBreak(b, contracts, fails, i) ==
    IF i >= Len(contracts) THEN b
    ELSE LET batch == SubSeq(contracts, i + 1, Min(i + batch_size, Len(contracts)))
         IN  IF (i \div batch_size) + 1 \in fails
             THEN [quotes |-> b.quotes,
                   calls |-> Append(b.calls, Call("snapshots", batch, FALSE))]
             ELSE BatchLoopBreak([quotes |-> b.quotes \o Snapshots(batch, i),
                                  calls |-> b.calls \o << Call("snapshots", batch, TRUE),
                                                          Call("sleep", 1, TRUE) >>],
                                 contracts, fails, i + batch_size)

\* The loop of lines 159-168, from offset i; the batches numbered in fails
\* raise.  b = [quotes, calls].
RECURSIVE BatchLoop(_, _, _, _)
BatchLoop(b, contracts, fails, i) ==
    IF i >= Len(contracts) THEN b
    ELSE LET batch == SubSeq(contracts, i + 1, Min(i + batch_size, Len(contracts)))
         IN  IF (i \div batch_size) + 1 \in fails
             THEN BatchLoop([quotes |-> b.quotes,
                             calls |-> Append(b.calls, Call("snapshots", batch, FALSE))],
                            contracts, fails, i + batch_size)
             ELSE BatchLoop([quotes |-> b.quotes \o Snapshots(batch, i),
                             calls |-> b.calls \o << Call("snapshots", batch, TRUE),
                                                     Call("sleep", 1, TRUE) >>],
                            contracts, fails, i + batch_size)

\* result = [{code, market, price, timestamp} for i, q in enumerate(quotes)]
FormatQuotes(quotes, markets) ==
    [i \in 1..Len(quotes) |->
        [code |-> quotes[i].code,
         market |-> markets[i],
         price |-> IF quotes[i].hasClose THEN quotes[i].close ELSE None,
         timestamp |-> IF quotes[i].hasTs THEN quotes[i].ts ELSE None]]

(***************************************************************************)
(* Requests and responses.                                                 *)
(***************************************************************************)
\* {"statusCode": ..., "body": json.dumps(...)}: text is the message or the
\* error of the body, data what the body carries besides it.
Response(statusCode, text, data) ==
    [statusCode |-> statusCode, text |-> text, data |-> data]

\* A handler returns: the globals, the response and the calls it made.
Return(endpoint, input, newApi, newCache, response, log) ==
    /\ api' = newApi
    /\ contract_cache' = newCache
    /\ resp' = response
    /\ calls' = log
    /\ req' = [endpoint |-> endpoint, input |-> input]
    /\ populations' = IF ReadsDirectory(log) THEN Min(populations + 1, MaxCount)
                                              ELSE populations
    /\ UNCHANGED threads

(***************************************************************************)
(* GET /fetch_all (lines 93-186).                                          *)
(***************************************************************************)
\* api.usage(): raises, or returns usage.bytes and usage.limit_bytes (here
\* exactly 0.8 of the limit, or just above it)
UsageResults ==
    { [raised |-> TRUE, bytes |-> 0, limit_bytes |-> 0] } \cup
    { [raised |-> FALSE, bytes |-> b, limit_bytes |-> 100] : b \in {80, 81} }

\* Mutant of OverTraffic: the limit itself for 0.8 of it.
OverTrafficWholeLimit(usage) == usage.bytes > usage.limit_bytes

\* usage.bytes > 0.8 * usage.limit_bytes
OverTraffic(usage) == 5 * usage.bytes > 4 * usage.limit_bytes

\* 12 * 1024**3 bytes, in KiB (mem_info.rss is a whole number of pages)
RssThreshold == 12 * 1024 * 1024

\* process.memory_info().rss, in KiB (here exactly 12 GiB, or just above it)
RssResults == {RssThreshold, RssThreshold + 1}

\* Mutant of OverMemory: the threshold a factor 1024 too high.
OverMemoryWrongUnit(rss) == rss > 12 * 1024 * 1024 * 128

\* mem_info.rss > 12 * 1024**3
OverMemory(rss) == rss > RssThreshold

\* The directory reads that may raise in a population step of session s.
AbortPoints(s) ==
    LET steps == PopulationSteps(Contracts(s))
    IN  { steps[i] : i \in 1..Len(steps) } \cup {None}

\* Lines 152-183, for the instrument list contracts and its labels markets.
FetchBatches(cache, contracts, markets, log) ==
    \E fails \in SUBSET (1..NumBatches(Len(contracts))) :
        LET b == BatchLoop([quotes |-> <<>>, calls |-> log], contracts, fails, 0)
        IN  Return("fetch_all", <<>>, api, cache,
                   Response(200, "Quotes fetched",
                            [quotes |-> FormatQuotes(b.quotes, markets),
                             snapshots |-> b.quotes]),
                   b.calls)

\* Lines 152-154 and on: building markets raises KeyError for a key without
\* its "_market" entry.
FetchCollect(cache, log) ==
    IF MarketsRaises(cache)
    THEN Return("fetch_all", <<>>, api, cache,
                Response(500, "Error in fetch_all", <<>>), log)
    ELSE FetchBatches(cache, ContractsOf(cache), MarketsOf(cache), log)

\* Mutant of CacheIsEmpty: the population step runs in every request.
CacheIsEmptyAlways(cache) == TRUE

\* not contract_cache (line 117)
CacheIsEmpty(cache) == cache = EmptyDict

\* Lines 118-150, then the rest of the handler.
FetchPopulate(log) ==
    \E abort \in AbortPoints(api) :
        LET p == Populate([cache |-> contract_cache, calls |-> log, raised |-> FALSE],
                          Contracts(api), abort, 1)
        IN  IF p.raised
            THEN Return("fetch_all", <<>>, api, p.cache,
                        Response(500, "Error in fetch_all", <<>>), p.calls)
            ELSE FetchCollect(p.cache, p.calls)

fetch_all ==
    IF api = NoApi
    THEN Return("fetch_all", <<>>, api, contract_cache,
                Response(500, "Shioaji API not initialized", <<>>), <<>>)
    ELSE \E usage \in UsageResults :
           LET log == << Call("usage", usage, ~usage.raised) >>
           IN  IF usage.raised
               THEN Return("fetch_all", <<>>, api, contract_cache,
                           Response(500, "Error in fetch_all", <<>>), log)
               ELSE IF OverTraffic(usage)
               THEN Return("fetch_all", <<>>, api, contract_cache,
                           Response(429, "Approaching traffic limit", <<>>), log)
               ELSE \E rss \in RssResults :
                      LET log2 == Append(log, Call("memory_info", rss, TRUE))
                      IN  IF OverMemory(rss)
                          THEN Return("fetch_all", <<>>, api, contract_cache,
                                      Response(429, "High memory usage", <<>>), log2)
                          ELSE IF CacheIsEmpty(contract_cache)
                          THEN FetchPopulate(log2)
                          ELSE FetchCollect(contract_cache, log2)

(***************************************************************************)
(* POST /login (lines 32-91).                                              *)
(***************************************************************************)
\* A field of the JSON body: absent (data.get gives None), the empty
\* string, or a non-empty string.
FieldValues == {"absent", "empty", "set"}

\* request.get_json(): raises on a malformed body, returns None for null,
\* and otherwise the posted object.
Body(kind, api_key, secret_key, ca_path, ca_password, person_id, simulation_mode) ==
    [kind |-> kind, api_key |-> api_key, secret_key |-> secret_key, ca_path |-> ca_path,
     ca_password |-> ca_password, person_id |-> person_id,
     simulation_mode |-> simulation_mode]

LoginBodies ==
    { Body(k, "absent", "absent", "absent", "absent", "absent", "absent") :
         k \in {"malformed", "null"} }
    \cup
    { Body("object", a, s, p, w, i, m) :
         a \in FieldValues, s \in FieldValues, p \in {"absent", "set"},
         w \in FieldValues, i \in FieldValues, m \in {"absent", "false", "true"} }

\* The bodies of the login requests that run between other requests: a
\* malformed one, null, {}, {"simulation_mode": false}, and a complete one
\* for each mode.
SimulationBody == Body("object", "set", "set", "absent", "absent", "absent", "true")

SomeBodies ==
    { Body("malformed", "absent", "absent", "absent", "absent", "absent", "absent"),
      Body("null", "absent", "absent", "absent", "absent", "absent", "absent"),
      Body("object", "absent", "absent", "absent", "absent", "absent", "absent"),
      Body("object", "absent", "absent", "absent", "absent", "absent", "false"),
      Body("object", "set", "set", "absent", "set", "set", "absent"),
      SimulationBody }

\* not x, for a field read with data.get
Falsy(field) == field # "set"

\* not data
BodyIsFalsy(data) ==
    \/ data.kind = "null"
    \/ /\ data.api_key = "absent" /\ data.secret_key = "absent"
       /\ data.ca_path = "absent" /\ data.ca_password = "absent"
       /\ data.person_id = "absent" /\ data.simulation_mode = "absent"

\* simulation_mode = data.get("simulation_mode", False)
SimulationMode(data) == data.simulation_mode = "true"

\* Mutant of MissingParams: ca_password and person_id required in every mode.
MissingParamsEveryMode(data) ==
    LET m1 == IF Falsy(data.api_key) THEN <<"api_key">> ELSE <<>>
        m2 == IF Falsy(data.secret_key) THEN Append(m1, "secret_key") ELSE m1
        m3 == IF Falsy(data.ca_password) THEN Append(m2, "ca_password") ELSE m2
    IN  IF Falsy(data.person_id) THEN Append(m3, "person_id") ELSE m3

\* Lines 48-57.
MissingParams(data) ==
    LET m1 == IF Falsy(data.api_key) THEN <<"api_key">> ELSE <<>>
        m2 == IF Falsy(data.secret_key) THEN Append(m1, "secret_key") ELSE m1
        m3 == IF ~SimulationMode(data) /\ Falsy(data.ca_password)
              THEN Append(m2, "ca_password") ELSE m2
        m4 == IF ~SimulationMode(data) /\ Falsy(data.person_id)
              THEN Append(m3, "person_id") ELSE m3
    IN  m4

\* Mutant of LoginFlow: the result of activate_ca is not tested.
LoginFlowIgnoresActivation(data, log, end, u) ==
    LET sim == SimulationMode(data)
        error == Response(500, "Error in login", <<>>)
        c1 == Append(log, Call("Shioaji", sim, end # "Shioaji raises"))
        c2 == IF sim THEN c1
              ELSE Append(c1, Call("activate_ca", end # "activate_ca false",
                                   end # "activate_ca raises"))
        c3 == Append(c2, Call("login", <<>>, end # "login raises"))
        c4 == Append(c3, Call("fetch_contracts", <<>>, end # "fetch_contracts raises"))
    IN  CASE end = "Shioaji raises" ->
               [api |-> api, resp |-> error, calls |-> c1]
          [] end = "activate_ca raises" ->
               [api |-> Session(sim, "created", 0),
                resp |-> error, calls |-> c2]
          [] end = "login raises" ->
               [api |-> Session(sim, "created", 0),
                resp |-> error, calls |-> c3]
          [] end = "fetch_contracts raises" ->
               [api |-> Session(sim, "logged_in", 0),
                resp |-> error, calls |-> c4]
          [] OTHER ->
               [api |-> Session(sim, "ready", u),
                resp |-> Response(200, "Login successful", "accounts"), calls |-> c4]

\* Mutant of LoginFlow: an error of fetch_contracts is swallowed.
LoginFlowSwallowsFetchError(data, log, end, u) ==
    LET sim == SimulationMode(data)
        error == Response(500, "Error in login", <<>>)
        c1 == Append(log, Call("Shioaji", sim, end # "Shioaji raises"))
        c2 == IF sim THEN c1
              ELSE Append(c1, Call("activate_ca", end # "activate_ca false",
                                   end # "activate_ca raises"))
        c3 == Append(c2, Call("login", <<>>, end # "login raises"))
        c4 == Append(c3, Call("fetch_contracts", <<>>, end # "fetch_contracts raises"))
    IN  CASE end = "Shioaji raises" ->
               [api |-> api, resp |-> error, calls |-> c1]
          [] end = "activate_ca raises" ->
               [api |-> Session(sim, "created", 0),
                resp |-> error, calls |-> c2]
          [] end = "activate_ca false" ->
               [api |-> Session(sim, "created", 0),
                resp |-> Response(500, "Failed to activate CA", <<>>), calls |-> c2]
          [] end = "login raises" ->
               [api |-> Session(sim, "created", 0),
                resp |-> error, calls |-> c3]
          [] OTHER ->
               [api |-> Session(sim, IF end = "ok" THEN "ready" ELSE "logged_in",
                                IF end = "ok" THEN u ELSE 0),
                resp |-> Response(200, "Login successful", "accounts"), calls |-> c4]

\* Where the flow of lines 67-88 ends: at the call that raises, at the
\* activation that returns False, or at the return of line 85.
LoginEnds(sim) ==
    {"Shioaji raises", "login raises", "fetch_contracts raises", "ok"} \cup
    (IF sim THEN {} ELSE {"activate_ca raises", "activate_ca false"})

\* Lines 67-88: [api, resp, calls], for a flow that ends at `end` and a
\* session whose fetch_contracts downloads universe u.  api is assigned at
\* line 68, before the rest of the flow.
LoginFlow(data, log, end, u) ==
    LET sim == SimulationMode(data)
        error == Response(500, "Error in login", <<>>)
        c1 == Append(log, Call("Shioaji", sim, end # "Shioaji raises"))
        c2 == IF sim THEN c1
              ELSE Append(c1, Call("activate_ca", end # "activate_ca false",
                                   end # "activate_ca raises"))
        c3 == Append(c2, Call("login", <<>>, end # "login raises"))
        c4 == Append(c3, Call("fetch_contracts", <<>>, end # "fetch_contracts raises"))
    IN  CASE end = "Shioaji raises" ->
               [api |-> api, resp |-> error, calls |-> c1]
          [] end = "activate_ca raises" ->
               [api |-> Session(sim, "created", 0), resp |-> error, calls |-> c2]
          [] end = "activate_ca false" ->
               [api |-> Session(sim, "created", 0),
                resp |-> Response(500, "Failed to activate CA", <<>>), calls |-> c2]
          [] end = "login raises" ->
               [api |-> Session(sim, IF sim THEN "created" ELSE "activated", 0),
                resp |-> error, calls |-> c3]
          [] end = "fetch_contracts raises" ->
               [api |-> Session(sim, "logged_in", 0), resp |-> error, calls |-> c4]
          [] OTHER ->
               [api |-> Session(sim, "ready", u),
                resp |-> Response(200, "Login successful", "accounts"), calls |-> c4]

\* One login request, its body drawn from bodies; fetch_contracts downloads
\* one of universes.
LoginRequest(bodies, universes) ==
    \E data \in bodies :
        IF data.kind = "malformed"
        THEN Return("login", data, api, contract_cache,
                    Response(500, "Error in login", <<>>), <<>>)
        ELSE IF BodyIsFalsy(data)
        THEN Return("login", data, api, contract_cache,
                    Response(400, "Request body is empty", <<>>), <<>>)
        ELSE IF MissingParams(data) # <<>>
        THEN Return("login", data, api, contract_cache,
                    Response(400, "Missing parameters", MissingParams(data)), <<>>)
        ELSE \E exists \in BOOLEAN :
               LET sim == SimulationMode(data)
                   log == IF sim THEN <<>> ELSE << Call("exists", exists, TRUE) >>
               IN  IF ~sim /\ ~exists
                   THEN Return("login", data, api, contract_cache,
                               Response(500, "CA file not found", <<>>), log)
                   ELSE \E end \in LoginEnds(sim), u \in universes :
                          LET f == LoginFlow(data, log, end, u)
                          IN  Return("login", data, f.api, contract_cache, f.resp, f.calls)

login == LoginRequest(SomeBodies, SmallUniverses)

(***************************************************************************)
(* GET /quote (lines 188-248).                                             *)
(***************************************************************************)
QuoteCodes == {1, 2, 3, 6, 9}

\* request.args: code absent, empty or given; type absent or given
QuoteArgs ==
    { [code |-> c, type |-> t] :
        c \in {[given |-> "absent", value |-> 0], [given |-> "empty", value |-> 0]}
              \cup { [given |-> "set", value |-> v] : v \in QuoteCodes },
        t \in {"absent", "stock", "futures", "options", "bond"} }

\* type_ = request.args.get("type", "stock")
TypeOf(args) == IF args.type = "absent" THEN "stock" ELSE args.type

\* Mutant of SupportedType: no type is rejected.
SupportedTypeAny(type) == TRUE

\* The branches of lines 207-225 that resolve a contract; any other type
\* reaches the else of line 226.
SupportedType(type) == type \in {"stock", "futures", "options"}

\* c[code] on a directory: the contract with that code, or KeyError
HasCode(container, code) ==
    \E i \in 1..Len(container) : container[i].hasCode /\ container[i].code = code

Lookup(container, code) ==
    container[CHOOSE i \in 1..Len(container) :
                  container[i].hasCode /\ container[i].code = code]

\* The venues the loop of line 208 probes: c is None for an absent OES.
StockVenues(dirs) ==
    << [m |-> "TSE", c |-> dirs.TSE], [m |-> "OTC", c |-> dirs.OTC] >> \o
    (IF dirs.hasOES THEN << [m |-> "OES", c |-> dirs.OES] >> ELSE <<>>)

\* Mutant of ProbeStocks: a hit does not end the loop (no break).
RECURSIVE ProbeStocksNoBreak(_, _, _, _)
ProbeStocksNoBreak(venues, code, log, i) ==
    IF i > Len(venues)
    THEN [found |-> FALSE, contract |-> None, market |-> <<>>, calls |-> log]
    ELSE LET rest == ProbeStocksNoBreak(venues, code,
                        Append(log, Call("lookup", venues[i].m,
                                         HasCode(venues[i].c, code))), i + 1)
         IN  IF rest.found \/ ~HasCode(venues[i].c, code) THEN rest
             ELSE [found |-> TRUE, contract |-> Lookup(venues[i].c, code),
                   market |-> <<venues[i].m>>, calls |-> rest.calls]

\* Lines 208-216, from venue i on: [found, contract, market, calls].
RECURSIVE ProbeStocks(_, _, _, _)
ProbeStocks(venues, code, log, i) ==
    IF i > Len(venues)
    THEN [found |-> FALSE, contract |-> None, market |-> <<>>, calls |-> log]
    ELSE IF HasCode(venues[i].c, code)
         THEN [found |-> TRUE, contract |-> Lookup(venues[i].c, code),
               market |-> <<venues[i].m>>,
               calls |-> Append(log, Call("lookup", venues[i].m, TRUE))]
         ELSE ProbeStocks(venues, code, Append(log, Call("lookup", venues[i].m, FALSE)),
                          i + 1)

\* Lines 205-225 for a supported type, when no directory read raises
\* anything but KeyError: [found, keyError, contract, market, calls].
Resolve(dirs, type, code) ==
    IF type = "stock"
    THEN LET r == ProbeStocks(StockVenues(dirs), code, <<>>, 1)
         IN  [found |-> r.found, keyError |-> FALSE, contract |-> r.contract,
              market |-> IF r.found /\ r.contract.category = "Warrant"
                         THEN WarrantMarket(r.market) ELSE r.market,
              calls |-> r.calls]
    ELSE LET container == IF type = "futures" THEN dirs.Futures ELSE dirs.Options
             label == IF type = "futures" THEN "Futures" ELSE "Options"
             hit == HasCode(container, code)
         IN  [found |-> hit, keyError |-> ~hit,
              contract |-> IF hit THEN Lookup(container, code) ELSE None,
              market |-> <<label>>,
              calls |-> << Call("lookup", label, hit) >>]

quote ==
    \E args \in QuoteArgs :
        LET type == TypeOf(args)
            error == Response(500, "Error in quote", <<>>)
        IN
        IF args.code.given # "set"
        THEN Return("quote", args, api, contract_cache,
                    Response(400, "Missing parameter: code", <<>>), <<>>)
        ELSE IF api = NoApi
        THEN Return("quote", args, api, contract_cache,
                    Response(500, "Shioaji API not initialized", <<>>), <<>>)
        ELSE IF ~SupportedType(type)
        THEN Return("quote", args, api, contract_cache,
                    Response(400, "Unsupported type", type), <<>>)
        ELSE \/ \* reading api.Contracts raises
                Return("quote", args, api, contract_cache, error,
                       << Call("Contracts", type, FALSE) >>)
             \/ LET r == Resolve(Contracts(api), type, args.code.value)
                IN  IF r.keyError
                    THEN Return("quote", args, api, contract_cache, error, r.calls)
                    ELSE IF ~r.found
                    THEN Return("quote", args, api, contract_cache,
                                Response(500, "Contract not found", <<>>), r.calls)
                    ELSE \E ok \in BOOLEAN :
                           LET log == Append(r.calls, Call("snapshots", <<r.contract>>, ok))
                               q == Snapshots(<<r.contract>>, 0)[1]
                           IN  IF ~ok
                               THEN Return("quote", args, api, contract_cache, error, log)
                               ELSE Return("quote", args, api, contract_cache,
                                           Response(200, "Quote fetched",
                                                    [quote |-> [code |-> q.code,
                                                                price |-> q.close,
                                                                timestamp |-> q.ts],
                                                     market |-> r.market,
                                                     type |-> type,
                                                     contract |-> r.contract]),
                                           log)

(***************************************************************************)
(* The process: the globals of lines 29-30, then requests one at a time.   *)
(***************************************************************************)
Init ==
    /\ api = NoApi
    /\ contract_cache = EmptyDict
    /\ resp = Response(0, "", <<>>)
    /\ calls = <<>>
    /\ req = [endpoint |-> "", input |-> <<>>]
    /\ populations = 0
    /\ threads = [t \in Threads |-> Idle]

Next == login \/ fetch_all \/ quote

Spec == Init /\ [][Next]_vars

(***************************************************************************)
(* The same process at a broker whose directories hold more than two       *)
(* batches of instruments (universe 3): logins in simulation mode and      *)
(* fetch_all requests.                                                     *)
(***************************************************************************)
bulk_login == LoginRequest({SimulationBody}, BigUniverses)

BulkNext == bulk_login \/ fetch_all

BulkSpec == Init /\ [][BulkNext]_vars

(***************************************************************************)
(* One login request with any body, in a process whose global session is   *)
(* absent, complete, or left behind by a login that failed.                *)
(***************************************************************************)
ValidationInit ==
    /\ api \in {NoApi, Session(TRUE, "ready", 1), Session(FALSE, "ready", 2),
                Session(FALSE, "created", 0), Session(TRUE, "logged_in", 0)}
    /\ contract_cache = EmptyDict
    /\ resp = Response(0, "", <<>>)
    /\ calls = <<>>
    /\ req = [endpoint |-> "", input |-> <<>>]
    /\ populations = 0
    /\ threads = [t \in Threads |-> Idle]

validate ==
    /\ req.endpoint = ""
    /\ LoginRequest(LoginBodies, SmallUniverses)

ValidationSpec == ValidationInit /\ [][validate]_vars

(***************************************************************************)
(* Properties.                                                             *)
(***************************************************************************)
IsFetchAll == req.endpoint = "fetch_all"
IsLogin == req.endpoint = "login"

QuotesFetched == IsFetchAll /\ resp.text = "Quotes fetched"

\* The snapshot calls of a request, in the order they were made.
SnapshotCalls(log) == SelectSeq(log, LAMBDA c : c.op = "snapshots")

\* C1: in fetch-all, every output record's market is the cached market label
\* of the instrument its quote was requested for (the label at that
\* instrument's index in the instrument list), also after a chunk that raised.
C1_MarketOfRequestedInstrument ==
    QuotesFetched =>
        LET markets == MarketsOf(contract_cache)
        IN  \A i \in 1..Len(resp.data.quotes) :
               resp.data.quotes[i].market = markets[resp.data.snapshots[i].pos]

\* C2: a fetch-all that reaches the batch loop with N cached instruments
\* issues ceil(N/200) snapshot calls on the consecutive slices of 200 of the
\* instrument list, returns 200 whatever calls raise, and returns exactly the
\* quotes of the calls that did not raise, in chunk order.
C2_ChunksAndPartialResult ==
    (IsFetchAll /\ (resp.statusCode = 200 \/ SnapshotCalls(calls) # <<>>)) =>
        LET contracts == ContractsOf(contract_cache)
            n == Len(contracts)
            snaps == SnapshotCalls(calls)
            returned == { p \in 1..n : snaps[((p - 1) \div 200) + 1].ok }
            quotes == resp.data.snapshots
        IN  /\ resp.statusCode = 200
            /\ 200 * Len(snaps) >= n
            /\ 200 * Len(snaps) < n + 200
            /\ \A k \in 1..Len(snaps) :
                  /\ Len(snaps[k].arg) = (IF 200 * k <= n THEN 200 ELSE n - 200 * (k - 1))
                  /\ \A j \in 1..Len(snaps[k].arg) :
                        snaps[k].arg[j] = contracts[200 * (k - 1) + j]
            /\ Len(quotes) = Cardinality(returned)
            /\ \A i \in 1..Len(quotes) :
                  /\ quotes[i].pos \in returned
                  /\ quotes[i].asked = contracts[quotes[i].pos]
                  /\ resp.data.quotes[i].code = contracts[quotes[i].pos].code
                  /\ i > 1 => quotes[i - 1].pos < quotes[i].pos

\* C2's case: three chunks (200, 200 and the rest), the second raised, and
\* the quotes of the first and the third returned.
C2_Witness ==
    /\ QuotesFetched
    /\ Len(SnapshotCalls(calls)) = 3
    /\ SnapshotCalls(calls)[1].ok
    /\ ~SnapshotCalls(calls)[2].ok
    /\ SnapshotCalls(calls)[3].ok
    /\ Len(resp.data.quotes) = Len(ContractsOf(contract_cache)) - 200
    /\ resp.data.snapshots[201].pos = 401

\* C3: in fetch-all, every snapshot call of the batch loop is followed by the
\* 1-second pause, also when the call raised.
C3_PauseAfterEverySnapshot ==
    IsFetchAll =>
        \A i \in 1..Len(calls) :
            calls[i].op = "snapshots" =>
                i < Len(calls) /\ calls[i + 1].op = "sleep"

\* The calls of a request that read a contract directory or query quotes.
TouchesBroker(log) ==
    \E i \in 1..Len(log) : IsDirectoryRead(log[i].op) \/ log[i].op = "snapshots"

\* The request read a quota usage above 0.8 of the limit, or a resident
\* memory above 12 GiB (12 * 1024 * 1024 KiB).
ObservedOverLimit(log) ==
    \E i \in 1..Len(log) :
        \/ log[i].op = "usage" /\ log[i].ok
           /\ 10 * log[i].arg.bytes > 8 * log[i].arg.limit_bytes
        \/ log[i].op = "memory_info" /\ log[i].arg > 12582912

\* C4: a fetch-all on an initialized session that observes usage above 0.8
\* of the limit, or resident memory above 12 GiB, returns 429, leaves the
\* cache as it was, reads no contract directory and issues no snapshot call.
C4_GuardHasNoSideEffect ==
    [][ (req'.endpoint = "fetch_all" /\ api # NoApi /\ ObservedOverLimit(calls')) =>
            /\ resp'.statusCode = 429
            /\ contract_cache' = contract_cache
            /\ api' = api
            /\ ~TouchesBroker(calls') ]_vars

\* C4's case: the memory gate rejects a request on a cold cache.
C4_Witness ==
    /\ IsFetchAll
    /\ api # NoApi
    /\ ObservedOverLimit(calls)
    /\ resp.text = "High memory usage"
    /\ contract_cache = EmptyDict

\* C5: in every fetch-all request, a warm-cache one included, every snapshot
\* call and every directory read comes after a quota query and a memory
\* reading of the same request that both passed their gate, the quota query
\* first; and no memory reading is taken before the quota query has passed.
C5_GuardsPrecedeBrokerCalls ==
    IsFetchAll =>
        /\ \A i \in 1..Len(calls) :
              (IsDirectoryRead(calls[i].op) \/ calls[i].op = "snapshots") =>
                  \E j \in 1..i, k \in 1..i :
                      /\ j < k /\ k < i
                      /\ calls[j].op = "usage" /\ calls[j].ok
                      /\ 10 * calls[j].arg.bytes <= 8 * calls[j].arg.limit_bytes
                      /\ calls[k].op = "memory_info"
                      /\ calls[k].arg <= 12582912
        /\ \A k \in 1..Len(calls) :
              calls[k].op = "memory_info" =>
                  \E j \in 1..k :
                      /\ j < k /\ calls[j].op = "usage" /\ calls[j].ok
                      /\ 10 * calls[j].arg.bytes <= 8 * calls[j].arg.limit_bytes

\* C5's case: a request served from a warm cache (no directory read) that
\* went on to query quotes.
C5_Witness ==
    /\ QuotesFetched
    /\ ~ReadsDirectory(calls)
    /\ SnapshotCalls(calls) # <<>>
    /\ calls[1].op = "usage" /\ calls[2].op = "memory_info"

\* C6 as claimed: the contract directories are read to populate the cache in
\* at most one request of the process.
C6_PopulatedInAtMostOneRequest == populations <= 1

\* C6, amended: once the cache holds an entry, no later request reads a
\* contract directory (the population step is a no-op from then on).
C6_NoReadOnceCacheNonEmpty ==
    [][ contract_cache # EmptyDict => ~ReadsDirectory(calls') ]_vars

\* C6's case: the cache was populated by an earlier request, and a later
\* fetch-all got past the guards and served from it.
C6_Witness ==
    /\ QuotesFetched
    /\ populations = 1
    /\ contract_cache # EmptyDict
    /\ ~ReadsDirectory(calls)
    /\ SnapshotCalls(calls) # <<>>

\* C7: once the cache is populated, no login, fetch-all or quote request
\* changes it.
C7_CacheImmutableOncePopulated ==
    [][ contract_cache # EmptyDict => contract_cache' = contract_cache ]_vars

\* C7's case: after a re-login the session's directories differ from the
\* cached ones, and a fetch-all queried the instruments of the earlier session.
C7_Witness ==
    /\ QuotesFetched
    /\ api.stage = "ready"
    /\ SnapshotCalls(calls) # <<>>
    /\ \A i \in 1..Len(resp.data.snapshots) : resp.data.snapshots[i].asked.u # api.u
    /\ Directories(api.u).TSE # <<>>

\* The request populated the cache from the directories of the current
\* session, and no directory read raised.
PopulationCompleted ==
    /\ IsFetchAll
    /\ ReadsDirectory(calls)
    /\ \A i \in 1..Len(calls) : IsDirectoryRead(calls[i].op) => calls[i].ok

\* The cache maps key to contract with this market label.
Maps(cache, key, contract, market) ==
    /\ DictHas(cache, key)
    /\ DictGet(cache, key) = contract
    /\ DictHas(cache, MarketKey(key))
    /\ DictGet(cache, MarketKey(key)) = market

\* The stock venues of a session, in the order of population.
Venues(dirs) ==
    << [name |-> "TSE", list |-> dirs.TSE], [name |-> "OTC", list |-> dirs.OTC] >> \o
    (IF dirs.hasOES THEN << [name |-> "OES", list |-> dirs.OES] >> ELSE <<>>)

\* What C8 says of the stock contract c of venue name.
StockCached(cache, c, name) ==
    /\ Maps(cache, CacheKey("stock_", c.code), c, <<name>>)
    /\ ((c.category = "Warrant") <=>
          Maps(cache, CacheKey("warrant_", c.code), c, <<name, "_Warrant">>))

\* What C8 says of futures and options.
OthersCached(cache, dirs) ==
    /\ \A i \in 1..Len(dirs.Futures) :
          dirs.Futures[i].hasCode =>
              Maps(cache, CacheKey("futures_", dirs.Futures[i].code),
                   dirs.Futures[i], <<"Futures">>)
    /\ \A i \in 1..Len(dirs.Options) :
          dirs.Options[i].hasCode =>
              Maps(cache, CacheKey("options_", dirs.Options[i].code),
                   dirs.Options[i], <<"Options">>)

\* C8 as claimed: after population, every stock instrument with a code in
\* venue V is under stock_<code> with label V and, exactly when its category
\* is Warrant, also under warrant_<code> with label V_Warrant; every futures
\* instrument is under futures_<code> with label Futures, every options
\* instrument under options_<code> with label Options.
C8_EveryInstrumentCached ==
    PopulationCompleted =>
        LET dirs == Contracts(api)
            venues == Venues(dirs)
        IN  /\ \A v \in 1..Len(venues) : \A i \in 1..Len(venues[v].list) :
                  venues[v].list[i].hasCode =>
                      StockCached(contract_cache, venues[v].list[i], venues[v].name)
            /\ OthersCached(contract_cache, dirs)

\* C8, amended: the same, for the stock instruments whose code no later venue
\* (in the order TSE, OTC, OES) lists as well.
C8_LastListingCached ==
    PopulationCompleted =>
        LET dirs == Contracts(api)
            venues == Venues(dirs)
        IN  /\ \A v \in 1..Len(venues) : \A i \in 1..Len(venues[v].list) :
                  (/\ venues[v].list[i].hasCode
                   /\ \A w \in (v + 1)..Len(venues) :
                         ~HasCode(venues[w].list, venues[v].list[i].code)) =>
                      StockCached(contract_cache, venues[v].list[i], venues[v].name)
            /\ OthersCached(contract_cache, dirs)

\* C8's case: a populated cache with a warrant of the last venue that lists
\* its code, a stock listed in two venues, a future and an option.
C8_Witness ==
    /\ PopulationCompleted
    /\ Maps(contract_cache, CacheKey("warrant_", 3), Directories(1).OTC[2],
            <<"OTC", "_Warrant">>)
    /\ Maps(contract_cache, CacheKey("stock_", 2), Directories(1).OTC[1], <<"OTC">>)
    /\ Maps(contract_cache, CacheKey("futures_", 1), Directories(1).Futures[1],
            <<"Futures">>)
    /\ Maps(contract_cache, CacheKey("options_", 3), Directories(1).Options[1],
            <<"Options">>)

\* The required fields of a posted object that are absent or empty, in the
\* order api_key, secret_key, ca_password, person_id.
RequiredMissing(data) ==
    SelectSeq(<<"api_key", "secret_key", "ca_password", "person_id">>,
              LAMBDA f :
                CASE f = "api_key" -> data.api_key # "set"
                  [] f = "secret_key" -> data.secret_key # "set"
                  [] f = "ca_password" ->
                       data.simulation_mode # "true" /\ data.ca_password # "set"
                  [] OTHER ->
                       data.simulation_mode # "true" /\ data.person_id # "set")

\* C9: for every posted object, the 400 response of login names exactly the
\* required fields that are missing, in the order api_key, secret_key,
\* ca_password, person_id; posting {} names all four.
C9_MissingParamsExhaustive ==
    (IsLogin /\ req.input.kind = "object") =>
        /\ RequiredMissing(req.input) # <<>> =>
              /\ resp.statusCode = 400
              /\ resp.text = "Missing parameters"
              /\ resp.data = RequiredMissing(req.input)
        /\ resp.statusCode = 400 => resp.text = "Missing parameters"

\* The calls of a request on the SDK.
CallsSdk(log) ==
    \E i \in 1..Len(log) :
        log[i].op \in {"Shioaji", "activate_ca", "login", "fetch_contracts"}

\* The request probed the certificate file and found it / found it missing.
ProbedCertificate(log, found) ==
    \E i \in 1..Len(log) : log[i].op = "exists" /\ log[i].arg = found

\* C10: login checks, in this order, that the body is present, that the
\* required fields are present, and (outside simulation mode) that the
\* certificate file exists; a login rejected by one of these checks calls no
\* collaborator and leaves the global session as it was.
C10_ValidationOrderNoEffect ==
    [][ (req'.endpoint = "login" /\ req'.input.kind # "malformed") =>
          LET data == req'.input
              empty == data.kind = "null" \/
                       data = Body("object", "absent", "absent", "absent", "absent",
                                   "absent", "absent")
              missing == RequiredMissing(data) # <<>>
              sim == data.simulation_mode = "true"
              rejected == resp'.statusCode = 400 \/ resp'.text = "CA file not found"
          IN  /\ (resp'.text = "Request body is empty") <=> empty
              /\ (resp'.text = "Missing parameters") <=> (~empty /\ missing)
              /\ (resp'.text = "CA file not found") <=>
                    (~empty /\ ~missing /\ ~sim /\ ProbedCertificate(calls', FALSE))
              /\ (empty \/ missing \/ sim) =>
                    (~ProbedCertificate(calls', TRUE) /\ ~ProbedCertificate(calls', FALSE))
              /\ (resp'.text = "Request body is empty") => resp'.statusCode = 400
              /\ (resp'.text = "Missing parameters") => resp'.statusCode = 400
              /\ (resp'.text = "CA file not found") => resp'.statusCode = 500
              /\ rejected <=> (empty \/ missing \/ (~sim /\ ProbedCertificate(calls', FALSE)))
              /\ rejected => (api' = api /\ contract_cache' = contract_cache
                              /\ ~CallsSdk(calls'))
              /\ ~rejected => CallsSdk(calls') ]_vars

\* C10's case: a complete body outside simulation mode, the certificate file
\* missing, and the session of an earlier login still in place.
C10_Witness ==
    /\ IsLogin
    /\ resp.statusCode = 500
    /\ resp.text = "CA file not found"
    /\ RequiredMissing(req.input) = <<>>
    /\ api = Session(TRUE, "ready", 1)

(***************************************************************************)
(* Login flow, quote resolution and error handling.                        *)
(***************************************************************************)
IsQuote == req.endpoint = "quote"

\* The collaborator calls of a login after its validation, in order.
SdkCalls(log) == SelectSeq(log, LAMBDA c : c.op # "exists")

\* The flow a login is to follow, by simulation mode.
ExpectedFlow(sim) ==
    <<"Shioaji">> \o (IF sim THEN <<>> ELSE <<"activate_ca">>) \o
    <<"login", "fetch_contracts">>

\* C11: a login that passes validation calls Shioaji, then activate_ca
\* exactly when simulation mode is off, then login, then fetch_contracts,
\* each only after the one before it returned; it answers 200 only after
\* fetch_contracts has returned; and when activate_ca returns False it
\* answers 500 having called neither login nor fetch_contracts.
C11_LoginFlowOrder ==
    IsLogin =>
        LET sdk == SdkCalls(calls)
            want == ExpectedFlow(req.input.simulation_mode = "true")
            n == Len(sdk)
        IN  /\ n <= Len(want)
            /\ \A i \in 1..n : sdk[i].op = want[i]
            /\ \A i \in 1..(n - 1) :
                  sdk[i].ok /\ (sdk[i].op = "activate_ca" => sdk[i].arg = TRUE)
            /\ (resp.statusCode = 200) <=> (n = Len(want) /\ sdk[n].ok)
            /\ \A i \in 1..n :
                  (sdk[i].op = "activate_ca" /\ sdk[i].ok /\ sdk[i].arg = FALSE) =>
                      /\ i = n
                      /\ resp.statusCode = 500
                      /\ resp.text = "Failed to activate CA"

\* C11's case: outside simulation mode the certificate file exists and
\* activate_ca returns False.
C11_Witness ==
    /\ IsLogin
    /\ resp.text = "Failed to activate CA"
    /\ Len(SdkCalls(calls)) = 2
    /\ SdkCalls(calls)[2] = Call("activate_ca", FALSE, TRUE)

\* The first of TSE, OTC, OES (when the session has one) that lists code.
FirstVenue(dirs, code) ==
    IF HasCode(dirs.TSE, code) THEN [name |-> "TSE", list |-> dirs.TSE]
    ELSE IF HasCode(dirs.OTC, code) THEN [name |-> "OTC", list |-> dirs.OTC]
    ELSE IF dirs.hasOES /\ HasCode(dirs.OES, code)
         THEN [name |-> "OES", list |-> dirs.OES]
    ELSE [name |-> "none", list |-> <<>>]

\* C12: a quote of type stock resolves the code in the first of TSE, OTC,
\* OES that lists it: the answer carries that venue's contract, with the
\* venue as market label, or the venue followed by _Warrant when the
\* contract's category is Warrant; venues after the first hit are not
\* probed, and "Contract not found" is answered exactly when none lists it.
C12_FirstVenueWins ==
    (IsQuote /\ TypeOf(req.input) = "stock" /\ calls # <<>>
             /\ calls[1].op # "Contracts") =>
        LET code == req.input.code.value
            first == FirstVenue(Contracts(api), code)
            c == Lookup(first.list, code)
            lookups == SelectSeq(calls, LAMBDA k : k.op = "lookup")
        IN  /\ (resp.text = "Contract not found") <=> (first.name = "none")
            /\ (resp.text = "Quote fetched") =>
                  /\ resp.data.contract = c
                  /\ resp.data.market = IF c.category = "Warrant"
                                        THEN <<first.name, "_Warrant">>
                                        ELSE <<first.name>>
            /\ first.name # "none" =>
                  /\ lookups[Len(lookups)] = Call("lookup", first.name, TRUE)
                  /\ calls[Len(calls)].op = "snapshots"
                  /\ calls[Len(calls)].arg = <<c>>

\* C12's case: code 2 is listed in TSE as a warrant and in OTC as a stock.
C12_Witness ==
    /\ IsQuote
    /\ resp.text = "Quote fetched"
    /\ req.input.code.value = 2
    /\ HasCode(Contracts(api).OTC, 2)
    /\ resp.data.market = <<"TSE", "_Warrant">>
    /\ resp.data.contract = Contracts(api).TSE[2]

\* C13 as claimed: in every state of the process, a quote with a non-empty
\* code and a type other than stock, futures or options is answered 400,
\* with no directory lookup and no snapshot call.
C13_UnsupportedTypeAlways400 ==
    (IsQuote /\ req.input.code.given = "set" /\ req.input.type = "bond") =>
        /\ resp.statusCode = 400
        /\ calls = <<>>

\* C13, amended: such a quote is answered 400 "Unsupported type" when the
\* global session is set and 500 "Shioaji API not initialized" when no login
\* has set it; in both cases with no directory lookup and no snapshot call.
C13_UnsupportedTypeOnSession ==
    (IsQuote /\ req.input.code.given = "set" /\ req.input.type = "bond") =>
        /\ api # NoApi => (resp.statusCode = 400 /\ resp.text = "Unsupported type")
        /\ api = NoApi => (resp.statusCode = 500
                           /\ resp.text = "Shioaji API not initialized")
        /\ calls = <<>>

\* C13's case: type bond for a code the session lists, after a login.
C13_Witness ==
    /\ IsQuote
    /\ req.input.type = "bond"
    /\ req.input.code.value = 1
    /\ api = Session(TRUE, "ready", 1)
    /\ resp.statusCode = 400

\* A call of the log raised, other than a venue's KeyError in the stock
\* probe loop of quote and other than the snapshot call of a fetch-all chunk.
RaisedOutsideBatchLoop ==
    \E i \in 1..Len(calls) :
        /\ ~calls[i].ok
        /\ ~(calls[i].op = "lookup" /\ TypeOf(req.input) = "stock")
        /\ ~(calls[i].op = "snapshots" /\ IsFetchAll)

\* C14: a request in which a collaborator call raises still ends with a
\* response of a status code and a body; the status is 500 unless the only
\* raises were snapshot calls of fetch-all chunks, which leave the status at
\* 200; and after any request the process accepts the next one.
C14_FailuresAnswered500 ==
    req.endpoint # "" =>
        /\ resp.statusCode \in {200, 400, 429, 500}
        /\ resp.text # ""
        /\ RaisedOutsideBatchLoop => resp.statusCode = 500
        /\ (~RaisedOutsideBatchLoop /\ \E i \in 1..Len(calls) :
                ~calls[i].ok /\ calls[i].op = "snapshots")
             => (IsFetchAll /\ resp.statusCode = 200)
        /\ ENABLED Next

\* C14's case: a directory read raises in the population step, after an
\* earlier venue has been stored.
C14_Witness ==
    /\ IsFetchAll
    /\ resp.statusCode = 500
    /\ contract_cache # EmptyDict
    /\ calls[Len(calls)] = Call("Futures", <<>>, FALSE)

(***************************************************************************)
(* The session and the cache across sequential requests.                   *)
(***************************************************************************)
\* The collaborator queries fetch_all and quote make on the session.
QueriesSession(log) ==
    \E i \in 1..Len(log) :
        log[i].op \in {"usage", "Contracts", "lookup", "snapshots"} \/
        IsDirectoryRead(log[i].op)

\* C18: after any sequence of sequential requests the global session is
\* absent or a session whose login flow completed, so fetch_all and quote
\* never query a session that is not logged in.
C18_SessionAbsentOrReady ==
    /\ (api = NoApi \/ api.stage = "ready")
    /\ ((IsFetchAll \/ IsQuote) /\ QueriesSession(calls)) => api.stage = "ready"

\* The entries a completed population of directory list stores under prefix.
AllKeyed(cache, list, prefix) ==
    \A i \in 1..Len(list) :
        list[i].hasCode =>
            /\ DictHas(cache, CacheKey(prefix, list[i].code))
            /\ DictHas(cache, MarketKey(CacheKey(prefix, list[i].code)))

\* Every coded instrument of every directory of dirs has its two entries.
HoldsEveryInstrument(cache, dirs) ==
    /\ \A v \in 1..Len(Venues(dirs)) : AllKeyed(cache, Venues(dirs)[v].list, "stock_")
    /\ AllKeyed(cache, dirs.Futures, "futures_")
    /\ AllKeyed(cache, dirs.Options, "options_")

\* C19: a fetch-all that builds its instrument list from a non-empty cache
\* finds in it both entries of every coded instrument of every directory of
\* the session the cache was populated from, also after a population step
\* that a raised error aborted; the instrument list and the label list have
\* the same length.
C19_NonEmptyCacheComplete ==
    (QuotesFetched /\ contract_cache # EmptyDict) =>
        /\ HoldsEveryInstrument(contract_cache,
                                Directories(contract_cache[1][2].u))
        /\ ~MarketsRaises(contract_cache)
        /\ Len(ContractsOf(contract_cache)) = Len(MarketsOf(contract_cache))

\* The contracts submitted to the snapshot calls of the request, in order.
RECURSIVE Submitted(_)
Submitted(log) ==
    IF log = <<>> THEN <<>>
    ELSE (IF log[1].op = "snapshots" THEN log[1].arg ELSE <<>>) \o Submitted(Tail(log))

\* The distinct instruments held by the cache.
CachedInstruments(cache) ==
    { ContractsOf(cache)[i] : i \in 1..Len(ContractsOf(cache)) }

\* C20: in one fetch-all each instrument is submitted to the snapshot query
\* at most once and appears in at most one output record; with no failed
\* chunk the number of output records is the number of distinct instruments
\* in the cache, warrants included.
C20_EachInstrumentOnce ==
    QuotesFetched =>
        LET sub == Submitted(calls)
            failed == \E i \in 1..Len(calls) : calls[i].op = "snapshots" /\ ~calls[i].ok
        IN  /\ \A i, j \in 1..Len(sub) : sub[i] = sub[j] => i = j
            /\ ~failed => Len(resp.data.quotes) =
                            Cardinality(CachedInstruments(contract_cache))

(***************************************************************************)
(* The handlers statement by statement, on worker threads.  A thread's pc  *)
(* names the line it is to execute next; every read and every write of     *)
(* the globals api and contract_cache is a step of its own.  A login here   *)
(* has passed the validation of lines 34-65.                                *)
(***************************************************************************)
\* The locals of thread t become rec.
Set(t, rec) == threads' = [threads EXCEPT ![t] = rec]

\* The request of the thread with locals me returns this status; what the
\* thread keeps is what the request did.
Finish(t, me, status) ==
    Set(t, [Idle EXCEPT !.endpoint = me.endpoint, !.sim = me.sim, !.status = status,
                        !.sawEmpty = me.sawEmpty, !.populated = me.populated,
                        !.src = me.src, !.raced = me.raced, !.listed = me.listed,
                        !.chunks = me.chunks, !.quotes = me.quotes])

\* Thread t is in a login, past line 68 and before its return.
PendingLogin(t) == threads[t].pc \in {"L72", "L78", "L82"}

\* A query made now by thread t goes to a session that is not ready while
\* the login of another thread is pending.
Races(t) == api.stage # "ready" /\ \E o \in Threads \ {t} : PendingLogin(o)

\* The locals me of thread t, after a query on the global session.
Queried(t, me) == [me EXCEPT !.raced = @ \/ Races(t)]

\* Mutant of LoginCreate: the new instance is kept in a local until the
\* flow has completed.
LoginCreateUnpublished(t) ==
    /\ threads[t].pc = "idle"
    /\ \E sim \in BOOLEAN, raises \in BOOLEAN :
          Set(t, [Idle EXCEPT !.endpoint = "login", !.sim = sim,
                              !.status = IF raises THEN 500 ELSE 0,
                              !.pc = IF raises THEN "idle"
                                     ELSE IF sim THEN "L78" ELSE "L72"])
    /\ UNCHANGED <<api, contract_cache, resp, calls, req, populations>>

\* Lines 34-68: api = sj.Shioaji(simulation=simulation_mode)
LoginCreate(t) ==
    /\ threads[t].pc = "idle"
    /\ \E sim \in BOOLEAN, raises \in BOOLEAN :
          IF raises
          THEN /\ Set(t, [Idle EXCEPT !.endpoint = "login", !.sim = sim, !.status = 500])
               /\ UNCHANGED api
          ELSE /\ api' = Session(sim, "created", 0)
               /\ Set(t, [Idle EXCEPT !.endpoint = "login", !.sim = sim,
                                      !.pc = IF sim THEN "L78" ELSE "L72"])
    /\ UNCHANGED <<contract_cache, resp, calls, req, populations>>

\* Lines 72-75: result = api.activate_ca(...), on the global's session
LoginActivate(t) ==
    /\ threads[t].pc = "L72"
    /\ \E outcome \in {"raises", "false", "true"} :
          IF outcome = "true"
          THEN /\ api' = [api EXCEPT !.stage = IF @ = "created" THEN "activated" ELSE @]
               /\ Set(t, [threads[t] EXCEPT !.pc = "L78"])
          ELSE /\ Finish(t, threads[t], 500)
               /\ UNCHANGED api
    /\ UNCHANGED <<contract_cache, resp, calls, req, populations>>

\* Line 78: accounts = api.login(...), on the global's session
LoginLogin(t) ==
    /\ threads[t].pc = "L78"
    /\ \E raises \in BOOLEAN :
          IF raises
          THEN /\ Finish(t, threads[t], 500)
               /\ UNCHANGED api
          ELSE /\ api' = [api EXCEPT !.stage = IF @ \in {"created", "activated"}
                                               THEN "logged_in" ELSE @]
               /\ Set(t, [threads[t] EXCEPT !.pc = "L82"])
    /\ UNCHANGED <<contract_cache, resp, calls, req, populations>>

\* Lines 82-88: api.fetch_contracts(), on the global's session, which
\* downloads one of universes when that session is logged in.
LoginFetchContracts(t, universes) ==
    /\ threads[t].pc = "L82"
    /\ \/ /\ Finish(t, threads[t], 500)
          /\ UNCHANGED api
       \/ /\ api.stage \in {"logged_in", "ready"}
          /\ \E u \in universes : api' = [api EXCEPT !.stage = "ready", !.u = u]
          /\ Finish(t, threads[t], 200)
    /\ UNCHANGED <<contract_cache, resp, calls, req, populations>>

\* Line 97: if api is None
FetchStart(t) ==
    /\ threads[t].pc = "idle"
    /\ IF api = NoApi
       THEN Set(t, [Idle EXCEPT !.endpoint = "fetch_all", !.status = 500])
       ELSE Set(t, [Idle EXCEPT !.endpoint = "fetch_all", !.pc = "F102"])
    /\ UNCHANGED <<api, contract_cache, resp, calls, req, populations>>

\* Lines 102-114: api.usage() on the global's session, then the two guards
FetchGuards(t) ==
    /\ threads[t].pc = "F102"
    /\ \E usage \in UsageResults, rss \in RssResults :
          LET me == Queried(t, threads[t])
          IN  IF usage.raised THEN Finish(t, me, 500)
              ELSE IF OverTraffic(usage) \/ OverMemory(rss) THEN Finish(t, me, 429)
              ELSE Set(t, [me EXCEPT !.pc = "F117"])
    /\ UNCHANGED <<api, contract_cache, resp, calls, req, populations>>

\* Line 117: if not contract_cache
FetchCheck(t) ==
    /\ threads[t].pc = "F117"
    /\ IF CacheIsEmpty(contract_cache)
       THEN Set(t, [threads[t] EXCEPT !.pc = "read", !.step = 1, !.sawEmpty = TRUE])
       ELSE Set(t, [threads[t] EXCEPT !.pc = "F153"])
    /\ UNCHANGED <<api, contract_cache, resp, calls, req, populations>>

\* The locals me once the loop over me.list has no contract left: the next
\* directory read, or line 153 after the last one.
AfterList(me) ==
    IF me.k <= Len(me.list.items) THEN me
    ELSE IF me.step = Len(DirectoryReads)
    THEN [me EXCEPT !.pc = "F153", !.populated = TRUE, !.list = Idle.list,
                    !.held = Idle.held, !.step = 0, !.k = 0, !.w = 0]
    ELSE [me EXCEPT !.pc = "read", !.step = @ + 1, !.list = Idle.list, !.k = 0, !.w = 0]

\* The locals me at the head of the loop over list(items).
StartList(me, items, prefix, market) ==
    AfterList([me EXCEPT !.pc = "store", !.k = 1, !.w = 1,
                         !.list = [items |-> items, prefix |-> prefix,
                                   market |-> market]])

\* The directory read numbered me.step returns (lines 121-123, 128, 139,
\* 145): the three venue containers are read from the global's session when
\* the list of line 120 is built, Futures and Options when their loop starts.
ReadReturns(t, me) ==
    LET r == DirectoryReads[me.step]
        dirs == Contracts(api)
        seen == Queried(t, [me EXCEPT !.src = @ \cup {api}, !.step = @ + 1])
    IN  CASE r = "Stocks.TSE" -> [seen EXCEPT !.held.TSE = dirs.TSE]
          [] r = "Stocks.OTC" -> [seen EXCEPT !.held.OTC = dirs.OTC]
          [] r = "Stocks.OES" -> [seen EXCEPT !.held.hasOES = dirs.hasOES,
                                              !.held.OES = dirs.OES]
          [] r = "list(TSE)"  -> StartList(me, me.held.TSE, "stock_", "TSE")
          [] r = "list(OTC)"  -> StartList(me, me.held.OTC, "stock_", "OTC")
          [] r = "list(OES)"  -> StartList(me, me.held.OES, "stock_", "OES")
          [] r = "Futures"    -> StartList([me EXCEPT !.src = @ \cup {api},
                                                       !.raced = @ \/ Races(t)],
                                           dirs.Futures, "futures_", "Futures")
          [] OTHER            -> StartList([me EXCEPT !.src = @ \cup {api},
                                                       !.raced = @ \/ Races(t)],
                                           dirs.Options, "options_", "Options")

\* One directory read of the population step: it returns or raises; the
\* loop over an OES container that is None is skipped (line 125).
FetchRead(t) ==
    /\ threads[t].pc = "read"
    /\ LET me == threads[t]
       IN  IF DirectoryReads[me.step] = "list(OES)" /\ ~me.held.hasOES
           THEN Set(t, [me EXCEPT !.step = @ + 1])
           ELSE \/ Set(t, ReadReturns(t, me))
                \/ Finish(t, me, 500)
    /\ UNCHANGED <<api, contract_cache, resp, calls, req, populations>>

\* Mutant of ContractWrites: no alias entry for a warrant.
ContractWritesNoAlias(contract, prefix, market) ==
    IF ~contract.hasCode THEN <<>>
    ELSE << <<CacheKey(prefix, contract.code), contract>>,
            <<MarketKey(CacheKey(prefix, contract.code)), <<market>> >> >>

\* The assignments to contract_cache of one pass of a population loop, in
\* order, as <<key, value>> (lines 129-137, 140-143, 146-149).
ContractWrites(contract, prefix, market) ==
    IF ~contract.hasCode THEN <<>>
    ELSE << <<CacheKey(prefix, contract.code), contract>>,
            <<MarketKey(CacheKey(prefix, contract.code)), <<market>> >> >> \o
         (IF prefix = "stock_" /\ contract.category = "Warrant"
          THEN << <<CacheKey("warrant_", contract.code), contract>>,
                  <<MarketKey(CacheKey("warrant_", contract.code)),
                    WarrantMarket(<<market>>)>> >>
          ELSE <<>>)

\* The assignment thread t is to make next, as a sequence of at most one
\* <<key, value>>.
NextWrite(t) ==
    LET me == threads[t]
        ws == IF me.pc = "store"
              THEN ContractWrites(me.list.items[me.k], me.list.prefix, me.list.market)
              ELSE <<>>
    IN  IF ws = <<>> THEN <<>> ELSE << ws[me.w] >>

\* One assignment contract_cache[key] = value of the population step, or
\* the pass over a contract without a code.
FetchStore(t) ==
    /\ threads[t].pc = "store"
    /\ LET me == threads[t]
           ws == ContractWrites(me.list.items[me.k], me.list.prefix, me.list.market)
       IN  IF ws = <<>>
           THEN /\ Set(t, AfterList([me EXCEPT !.k = @ + 1]))
                /\ UNCHANGED contract_cache
           ELSE /\ contract_cache' = DictSet(contract_cache, ws[me.w][1], ws[me.w][2])
                /\ Set(t, AfterList(IF me.w = Len(ws)
                                    THEN [me EXCEPT !.k = @ + 1, !.w = 1]
                                    ELSE [me EXCEPT !.w = @ + 1]))
    /\ UNCHANGED <<api, resp, calls, req, populations>>

\* Line 153: contracts = [v for k, v in contract_cache.items() if ...]
FetchContracts(t) ==
    /\ threads[t].pc = "F153"
    /\ Set(t, [threads[t] EXCEPT !.pc = "F154",
                                 !.contracts = ContractsOf(contract_cache)])
    /\ UNCHANGED <<api, contract_cache, resp, calls, req, populations>>

\* Line 154: markets = [contract_cache[k + "_market"] for k, v in ...]
FetchMarkets(t) ==
    /\ threads[t].pc = "F154"
    /\ IF MarketsRaises(contract_cache)
       THEN Finish(t, threads[t], 500)
       ELSE Set(t, [threads[t] EXCEPT !.pc = "F159", !.i = 0,
                                      !.markets = MarketsOf(contract_cache),
                                      !.listed = Len(threads[t].contracts)])
    /\ UNCHANGED <<api, contract_cache, resp, calls, req, populations>>

\* Lines 153-154 while another thread inserts a new key: the iteration over
\* contract_cache.items() raises (dictionary changed size during iteration).
FetchIterationRaces(t) ==
    /\ threads[t].pc \in {"F153", "F154"}
    /\ \E o \in Threads \ {t} :
          /\ NextWrite(o) # <<>>
          /\ ~DictHas(contract_cache, NextWrite(o)[1][1])
    /\ Finish(t, threads[t], 500)
    /\ UNCHANGED <<api, contract_cache, resp, calls, req, populations>>

\* Mutant of FetchBatch: a chunk that raises is tried again.
FetchBatchRetry(t) ==
    /\ threads[t].pc = "F159"
    /\ threads[t].i < Len(threads[t].contracts)
    /\ \E ok \in BOOLEAN :
          LET me == Queried(t, threads[t])
              size == Min(batch_size, Len(me.contracts) - me.i)
          IN  Set(t, [me EXCEPT !.chunks = Append(@, [offset |-> me.i, size |-> size,
                                                       ok |-> ok]),
                                !.quotes = IF ok THEN @ + size ELSE @,
                                !.i = IF ok THEN @ + batch_size ELSE @])
    /\ UNCHANGED <<api, contract_cache, resp, calls, req, populations>>

\* One pass of the loop of lines 159-168: api.snapshots(batch) on the
\* global's session returns one quote per instrument, or raises.
FetchBatch(t) ==
    /\ threads[t].pc = "F159"
    /\ threads[t].i < Len(threads[t].contracts)
    /\ \E ok \in BOOLEAN :
          LET me == Queried(t, threads[t])
              size == Min(batch_size, Len(me.contracts) - me.i)
          IN  Set(t, [me EXCEPT !.chunks = Append(@, [offset |-> me.i, size |-> size,
                                                       ok |-> ok]),
                                !.quotes = IF ok THEN @ + size ELSE @,
                                !.i = @ + batch_size])
    /\ UNCHANGED <<api, contract_cache, resp, calls, req, populations>>

\* Lines 171-183, after the loop: the response with one record per quote.
FetchReturn(t) ==
    /\ threads[t].pc = "F159"
    /\ threads[t].i >= Len(threads[t].contracts)
    /\ Finish(t, threads[t], 200)
    /\ UNCHANGED <<api, contract_cache, resp, calls, req, populations>>

\* A step of a request that thread t has started.
Progress(t, universes) ==
    \/ LoginActivate(t)
    \/ LoginLogin(t)
    \/ LoginFetchContracts(t, universes)
    \/ FetchGuards(t)
    \/ FetchCheck(t)
    \/ FetchRead(t)
    \/ FetchStore(t)
    \/ FetchContracts(t)
    \/ FetchMarkets(t)
    \/ FetchBatch(t)
    \/ FetchReturn(t)

\* Thread t takes up a request, or goes on with the one it has.
ThreadStep(t, universes) ==
    \/ LoginCreate(t)
    \/ FetchStart(t)
    \/ Progress(t, universes)

(***************************************************************************)
(* Two worker threads, each serving one request, their steps interleaved   *)
(* in any order, in a process whose cache is empty and whose global        *)
(* session is absent, complete, or left behind by a login that failed.     *)
(***************************************************************************)
ConcUniverses == {1, 2}

ConcInit ==
    /\ api \in {NoApi, Session(TRUE, "ready", 1), Session(FALSE, "ready", 2),
                Session(FALSE, "created", 0)}
    /\ contract_cache = EmptyDict
    /\ resp = Response(0, "", <<>>)
    /\ calls = <<>>
    /\ req = [endpoint |-> "", input |-> <<>>]
    /\ populations = 0
    /\ threads = [t \in Threads |-> Idle]

\* Thread t takes up its request.
ConcStart(t) ==
    /\ threads[t].endpoint = ""
    /\ (LoginCreate(t) \/ FetchStart(t))

ConcNext ==
    \E t \in Threads :
        \/ ConcStart(t)
        \/ Progress(t, ConcUniverses)
        \/ FetchIterationRaces(t)

ConcSpec == ConcInit /\ [][ConcNext]_vars

(***************************************************************************)
(* One worker thread at the broker of the large universe.                  *)
(***************************************************************************)
StepNext == ThreadStep(1, BigUniverses)

StepSpec == Init /\ [][StepNext]_vars

(***************************************************************************)
(* Concurrent requests, and termination of fetch_all.                      *)
(***************************************************************************)
\* C15: nothing guards the global session.  A login stores its new, not yet
\* logged-in instance in the global at line 68, before activate_ca, login
\* and fetch_contracts run, and a fetch_all tests only whether the global is
\* None before it queries it; so a fetch_all can query a session whose login
\* is still pending (the state C15_Witness describes).
C15_InstancePublishedAtCreation ==
    [][ \A t \in Threads :
          /\ (threads[t].pc = "idle" /\ threads'[t].pc \in {"L72", "L78"}) =>
                api' = Session(threads'[t].sim, "created", 0)
          /\ (threads[t].endpoint = "" /\ threads'[t].endpoint = "fetch_all"
                /\ api # NoApi) =>
                threads'[t].pc = "F102"
          /\ (threads[t].pc = "F102" /\ threads'[t].pc = "F117") =>
                (threads'[t].raced <=>
                   (api.stage # "ready" /\
                    \E o \in Threads \ {t} : threads[o].pc \in {"L72", "L78", "L82"})) ]_vars

\* C15's case: a fetch_all has passed its guards after api.usage() on a
\* session that is not ready, while the login that created it still has
\* its api.login() or api.fetch_contracts() to make.
C15_Witness ==
    \E t \in Threads, o \in Threads :
        /\ threads[t].endpoint = "fetch_all"
        /\ threads[t].pc = "F117"
        /\ threads[t].raced
        /\ threads[o].endpoint = "login"
        /\ threads[o].pc \in {"L78", "L82"}
        /\ api.stage # "ready"

\* Thread t has run a whole population step after it saw the cache empty.
Populated(t) ==
    /\ threads[t].endpoint = "fetch_all"
    /\ threads[t].sawEmpty
    /\ threads[t].populated

\* The cache one population step builds from the directories of session s.
SinglePopulation(s) ==
    Populate([cache |-> EmptyDict, calls |-> <<>>, raised |-> FALSE],
             Contracts(s), None, 1).cache

\* C16: when two concurrent fetch_all requests both saw the cache empty and
\* both ran the whole population step reading the same session, then,
\* however their assignments to the cache interleaved, the cache is the one
\* a single population step builds.
C16_ConcurrentPopulationSameCache ==
    ((\A t \in Threads : Populated(t))
       /\ \E s \in threads[1].src : \A t \in Threads : threads[t].src = {s}) =>
          \A s \in threads[1].src : contract_cache = SinglePopulation(s)

\* C16's case: both threads have populated the cache from the session of
\* universe 1, where one code is listed in two venues and two instruments
\* are warrants.
C16_Witness ==
    /\ \A t \in Threads :
          Populated(t) /\ threads[t].src = {Session(TRUE, "ready", 1)}
    /\ Len(contract_cache) = 16

\* A fetch_all is under way on thread t.
FetchUnderWay(t) == threads[t].endpoint = "fetch_all" /\ threads[t].pc # "idle"

\* How far the fetch_all with locals me is from its return: the phase of the
\* handler, the directory reads left, the contracts left in the list being
\* stored (or the instruments left to submit), the assignments left for the
\* contract at hand.
Rank(me) ==
    CASE me.pc = "F102"  -> <<6, 0, 0, 0>>
      [] me.pc = "F117"  -> <<5, 0, 0, 0>>
      [] me.pc = "read"  -> <<4, 2 * (9 - me.step) + 1, 0, 0>>
      [] me.pc = "store" -> <<4, 2 * (9 - me.step), Len(me.list.items) + 1 - me.k,
                              5 - me.w>>
      [] me.pc = "F153"  -> <<3, 0, 0, 0>>
      [] me.pc = "F154"  -> <<2, 0, 0, 0>>
      [] me.pc = "F159"  -> <<1, 0, IF me.i < Len(me.contracts)
                                    THEN Len(me.contracts) - me.i ELSE 0, 1>>
      [] OTHER           -> <<0, 0, 0, 0>>

\* The guard of some step of Progress holds for the fetch_all with locals me.
CanStep(me) ==
    \/ me.pc \in {"F102", "F117", "F153", "F154", "F159"}
    \/ me.pc = "read" /\ me.step \in 1..Len(DirectoryReads)
    \/ /\ me.pc = "store"
       /\ me.k \in 1..Len(me.list.items)
       /\ LET ws == ContractWrites(me.list.items[me.k], me.list.prefix, me.list.market)
          IN  ws = <<>> \/ me.w \in 1..Len(ws)

\* a comes before b in the lexicographic order of 4-tuples of naturals.
LexLess(a, b) ==
    \E j \in 1..4 : a[j] < b[j] /\ \A h \in 1..(j - 1) : a[h] = b[h]

\* C17: a fetch_all under way can always take a step, and every step it
\* takes brings it closer to its return (so it returns, provided every
\* collaborator call returns or raises); a request that reaches the batch
\* loop submits the instrument list chunk by chunk, each position in exactly
\* one snapshot call, a chunk that raised is not submitted again, and the
\* request returns 200, with no quote when every chunk raised.
C17_FetchAllReturnsNoRetry ==
    /\ [](\A t \in {1} :
            /\ FetchUnderWay(t) => CanStep(threads[t])
            /\ \A j \in 1..4 : Rank(threads[t])[j] >= 0
            /\ (threads[t].endpoint = "fetch_all" /\ threads[t].pc = "idle"
                  /\ threads[t].chunks # <<>>) =>
                   LET ch == threads[t].chunks
                       n == threads[t].listed
                   IN  /\ threads[t].status = 200
                       /\ \A c \in 1..Len(ch) :
                             /\ ch[c].offset = 200 * (c - 1)
                             /\ ch[c].size = Min(200, n - ch[c].offset)
                             /\ ch[c].size > 0
                       /\ ch[Len(ch)].offset + ch[Len(ch)].size = n
                       /\ (\A c \in 1..Len(ch) : ~ch[c].ok) => threads[t].quotes = 0)
    /\ [][ \A t \in {1} :
             (FetchUnderWay(t) /\ threads'[t] # threads[t]) =>
                 LexLess(Rank(threads'[t]), Rank(threads[t])) ]_vars

\* C17's case: a list of more than two chunks, every chunk raising.
C17_Witness ==
    /\ threads[1].endpoint = "fetch_all"
    /\ threads[1].pc = "idle"
    /\ threads[1].status = 200
    /\ threads[1].listed > 400
    /\ Len(threads[1].chunks) = 3
    /\ \A c \in 1..3 : ~threads[1].chunks[c].ok
    /\ threads[1].quotes = 0

====
